---- MODULE Spec2Model ----
(***************************************************************************)
(* A model of src/src/lib.rs: the iterator adaptors FilterWith and         *)
(* FilterMapWith, the extension trait FilterWithExt that constructs them,  *)
(* and the closures the crate's tests pass to them.                        *)
(*                                                                         *)
(* The wrapped source `I: Iterator` is the environment.  It is modelled    *)
(* as a script of poll results: a finite script answers the polls in order *)
(* and answers None once the script is used up; a script may hold None     *)
(* before an item (a source that is not fused); a cyclic script repeats    *)
(* for ever (an infinite source).                                          *)
(***************************************************************************)
EXTENDS Integers, Sequences, FiniteSets

VARIABLES
    iter,             \* the source: [items, pos, cyclic]      (field `iter`)
    predicate,        \* which closure the adaptor holds       (field `predicate`)
    state,            \* the value of type S                   (field `state`)
    s0,               \* the state value handed to the constructor
    adaptor,          \* "none", "FilterWith" or "FilterMapWith"
    overflow_checks,  \* build profile: TRUE = arithmetic overflow panics
    pc,               \* "new", "idle", "in_next" or "panicked"
    ret,              \* what the last completed next() returned
    hint,             \* what size_hint() returned, if it was the last call
    out,              \* the values next() has returned inside Some, in order
    calls,            \* the predicate invocations: <<item, state before>>
    ndrawn,           \* how many items have been drawn from the source
    ends,             \* how many times next() has returned None (capped)
    twin              \* beside a FilterWith: a FilterMapWith built on the same
                      \* source and state: [iter, state, pc, ret]

vars == <<iter, predicate, state, s0, adaptor, overflow_checks, pc, ret, hint,
          out, calls, ndrawn, ends, twin>>

(***************************************************************************)
(* Bounds of the model.                                                    *)
(***************************************************************************)
MaxLen == 3            \* longest source script

MaxHist == MaxLen + 1  \* `out`, `calls` and `ndrawn` stop recording here

MaxEnds == 2           \* `ends` stops counting here

(***************************************************************************)
(* Option<T>, and i32 arithmetic.                                          *)
(***************************************************************************)
None == <<>>

Some(v) == <<v>>

I32Max == 2147483647

I32Min == -2147483647 - 1

AddOverflows(a, b) ==
    \/ a > 0 /\ b > 0 /\ a > I32Max - b
    \/ a < 0 /\ b < 0 /\ a < I32Min - b

\* a + b in two's complement, without leaving the 32-bit range on the way
WrapAdd(a, b) ==
    IF a > 0 /\ b > 0 /\ a > I32Max - b THEN (a + I32Min) + (b + I32Min)
    ELSE IF a < 0 /\ b < 0 /\ a < I32Min - b THEN (a - I32Min) + (b - I32Min)
    ELSE a + b

MulOverflows(a, b) == a > 0 /\ b > I32Max \div a

\* a * b in two's complement, for 0 <= a, b <= I32Max, by 16-bit halves so
\* that no intermediate value leaves the 32-bit range
WrapMul(a, b) ==
    LET ah == a \div 65536
        al == a % 65536
        bh == b \div 65536
        bl == b % 65536
        t1 == (al \div 256) * bl
        t2 == (al % 256) * bl
        lsum == ((t1 % 256) * 256) + (t2 % 65536)
        lo == lsum % 65536
        hi == ((t1 \div 256) + (t2 \div 65536) + (lsum \div 65536)
               + ((ah * bl) % 65536) + ((al * bh) % 65536)) % 65536
    IN  IF hi >= 32768 THEN ((hi - 65536) * 65536) + lo ELSE (hi * 65536) + lo

\* `a + b` on i32: panics when overflow checks are on, wraps otherwise
I32Add(a, b, checks) ==
    [panic |-> checks /\ AddOverflows(a, b), val |-> WrapAdd(a, b)]

\* `a * b` on i32 (b >= 0)
I32Mul(a, b, checks) ==
    [panic |-> checks /\ MulOverflows(a, b), val |-> WrapMul(a, b)]

DigitChar(d) ==
    CASE d = 0 -> "0" [] d = 1 -> "1" [] d = 2 -> "2" [] d = 3 -> "3"
      [] d = 4 -> "4" [] d = 5 -> "5" [] d = 6 -> "6" [] d = 7 -> "7"
      [] d = 8 -> "8" [] d = 9 -> "9"

RECURSIVE Digits(_)
Digits(n) ==
    IF n < 10 THEN <<DigitChar(n)>>
    ELSE Digits(n \div 10) \o <<DigitChar(n % 10)>>

RECURSIVE NegDigits(_)
\* the digits of -n, for n <= 0, without negating n
NegDigits(n) ==
    IF n = 0 THEN <<>>
    ELSE LET d == (10 - (n % 10)) % 10
         IN  NegDigits((n + d) \div 10) \o <<DigitChar(d)>>

\* i32::to_string: the decimal digits, as a sequence of characters
to_string(n) == IF n >= 0 THEN Digits(n) ELSE <<"-">> \o NegDigits(n)

(***************************************************************************)
(* The source.                                                             *)
(***************************************************************************)
Items == {0, 1, 2, I32Max}

Polls == {None} \cup {Some(x) : x \in Items}

RECURSIVE SeqsUpTo(_, _)
SeqsUpTo(S, n) ==
    IF n = 0 THEN {<<>>}
    ELSE LET shorter == SeqsUpTo(S, n - 1)
         IN  shorter \cup {Append(s, e) : s \in {t \in shorter : Len(t) = n - 1}, e \in S}

\* Iterator::next of the source: the item polled and the source afterwards
IterNext(it) ==
    IF it.cyclic
    THEN [item |-> it.items[it.pos + 1],
          iter |-> [it EXCEPT !.pos = (it.pos + 1) % Len(it.items)]]
    ELSE IF it.pos < Len(it.items)
    THEN [item |-> it.items[it.pos + 1], iter |-> [it EXCEPT !.pos = it.pos + 1]]
    ELSE [item |-> None, iter |-> it]

\* a source that keeps answering None once it has answered None
Fused(it) ==
    \A i \in 1..Len(it.items) : it.items[i] = None =>
        \A j \in i..Len(it.items) : it.items[j] = None

\* Iterator::size_hint of the source: exact for a plain collection's iterator,
\* the trait's default (0, None) for any other source
IterSizeHint(it) ==
    IF ~it.cyclic /\ \A i \in 1..Len(it.items) : it.items[i] # None
    THEN <<Len(it.items) - it.pos, Some(Len(it.items) - it.pos)>>
    ELSE <<0, None>>

(***************************************************************************)
(* The closures of the tests.  Each gives [panic, state, result].          *)
(***************************************************************************)
Elems(s) == {s[i] : i \in 1..Len(s)}

\* tests::filter_with_predicate
filter_with_predicate(s, i) ==
    IF Len(s) # i THEN [panic |-> TRUE, state |-> s, result |-> FALSE]
    ELSE IF i \in Elems(s) THEN [panic |-> FALSE, state |-> s, result |-> FALSE]
    ELSE [panic |-> FALSE, state |-> Append(s, i), result |-> TRUE]

\* sum_lt that compares after it has added the item
sum_lt_CompareAfter(sum, i, checks) ==
    LET a == I32Add(sum, i, checks)
        b == a.val < i
    IN  [panic |-> a.panic, state |-> IF a.panic THEN sum ELSE a.val, result |-> b]

\* tests::filter_with_does_not_take_ownership, first closure
sum_lt(sum, i, checks) ==
    LET b == sum < i
        a == I32Add(sum, i, checks)
    IN  [panic |-> a.panic, state |-> IF a.panic THEN sum ELSE a.val, result |-> b]

\* tests::filter_with_does_not_take_ownership, second closure
sum_le(sum, i, checks) ==
    LET b == sum <= i
        a == I32Add(sum, i, checks)
    IN  [panic |-> a.panic, state |-> IF a.panic THEN sum ELSE a.val, result |-> b]

\* unique_by_filter_with that forgets to insert the item
unique_by_filter_with_NoInsert(s, i) ==
    IF i \in s THEN [panic |-> FALSE, state |-> s, result |-> FALSE]
    ELSE [panic |-> FALSE, state |-> s, result |-> TRUE]

\* tests::unique_by_filter_with
unique_by_filter_with(s, i) ==
    IF i \in s THEN [panic |-> FALSE, state |-> s, result |-> FALSE]
    ELSE [panic |-> FALSE, state |-> s \cup {i}, result |-> TRUE]

\* tests::filter_map_with_predicate
filter_map_with_predicate(s, i, checks) ==
    IF Len(s) # i THEN [panic |-> TRUE, state |-> s, result |-> None]
    ELSE IF i \in Elems(s) THEN [panic |-> FALSE, state |-> s, result |-> None]
    ELSE LET m == I32Mul(i, i, checks)
         IN  [panic |-> m.panic, state |-> Append(s, i),
              result |-> IF m.panic THEN None ELSE Some(m.val)]

\* unique_map_by_filter_with that forgets to insert the item
unique_map_by_filter_with_NoInsert(s, i, checks) ==
    IF i \in s THEN [panic |-> FALSE, state |-> s, result |-> None]
    ELSE LET m == I32Mul(i, i, checks)
         IN  [panic |-> m.panic, state |-> s,
              result |-> IF m.panic THEN None ELSE Some(to_string(m.val))]

\* tests::unique_map_by_filter_with
unique_map_by_filter_with(s, i, checks) ==
    IF i \in s THEN [panic |-> FALSE, state |-> s, result |-> None]
    ELSE LET m == I32Mul(i, i, checks)
         IN  [panic |-> m.panic, state |-> s \cup {i},
              result |-> IF m.panic THEN None ELSE Some(to_string(m.val))]

FilterPredicates == {"filter_with_predicate", "sum_lt", "sum_le", "unique_by_filter_with"}

MapPredicates == {"filter_map_with_predicate", "unique_map_by_filter_with"}

\* `(self.predicate)(&mut self.state, &x)` / `(self.predicate)(&mut self.state, x)`
CallPredicate(p, s, x, checks) ==
    CASE p = "filter_with_predicate" -> filter_with_predicate(s, x)
      [] p = "sum_lt" -> sum_lt(s, x, checks)
      [] p = "sum_le" -> sum_le(s, x, checks)
      [] p = "unique_by_filter_with" -> unique_by_filter_with(s, x)
      [] p = "filter_map_with_predicate" -> filter_map_with_predicate(s, x, checks)
      [] p = "unique_map_by_filter_with" -> unique_map_by_filter_with(s, x, checks)

\* the initial states handed to filter_with / filter_map_with
InitialStates(p) ==
    CASE p \in {"filter_with_predicate", "filter_map_with_predicate"} -> {<<>>}
      [] p \in {"sum_lt", "sum_le"} -> {0, 2}
      [] p \in {"unique_by_filter_with", "unique_map_by_filter_with"} -> {{}, {1}}

\* the closures that do i32 arithmetic
Arithmetic == {"sum_lt", "sum_le", "filter_map_with_predicate", "unique_map_by_filter_with"}

(***************************************************************************)
(* The adaptors.                                                           *)
(***************************************************************************)
\* FilterWithBody with the test inverted: the rejected items are returned
FilterWithBody_Inverted(p, s, x, checks) ==
    LET r == CallPredicate(p, s, x, checks)
    IN  IF r.panic THEN [ctl |-> "panic", state |-> r.state, val |-> None]
        ELSE IF ~r.result THEN [ctl |-> "return", state |-> r.state, val |-> Some(x)]
        ELSE [ctl |-> "continue", state |-> r.state, val |-> None]

\* FilterWithBody that calls the predicate on a copy of the state
FilterWithBody_StateByValue(p, s, x, checks) ==
    LET r == CallPredicate(p, s, x, checks)
    IN  IF r.panic THEN [ctl |-> "panic", state |-> s, val |-> None]
        ELSE IF r.result THEN [ctl |-> "return", state |-> s, val |-> Some(x)]
        ELSE [ctl |-> "continue", state |-> s, val |-> None]

\* FilterWithBody that gives up at the first rejected item: `return None`
FilterWithBody_StopOnReject(p, s, x, checks) ==
    LET r == CallPredicate(p, s, x, checks)
    IN  IF r.panic THEN [ctl |-> "panic", state |-> r.state, val |-> None]
        ELSE IF r.result THEN [ctl |-> "return", state |-> r.state, val |-> Some(x)]
        ELSE [ctl |-> "return", state |-> r.state, val |-> None]

\* FilterWithBody that swallows a failure of the predicate: the item counts
\* as rejected and the loop goes on
FilterWithBody_SwallowPanic(p, s, x, checks) ==
    LET r == CallPredicate(p, s, x, checks)
    IN  IF r.panic THEN [ctl |-> "continue", state |-> r.state, val |-> None]
        ELSE IF r.result THEN [ctl |-> "return", state |-> r.state, val |-> Some(x)]
        ELSE [ctl |-> "continue", state |-> r.state, val |-> None]

\* the body of the loop in FilterWith::next, for the item x
FilterWithBody(p, s, x, checks) ==
    LET r == CallPredicate(p, s, x, checks)
    IN  IF r.panic THEN [ctl |-> "panic", state |-> r.state, val |-> None]
        ELSE IF r.result THEN [ctl |-> "return", state |-> r.state, val |-> Some(x)]
        ELSE [ctl |-> "continue", state |-> r.state, val |-> None]

\* FilterMapWithBody that calls the function on a copy of the state
FilterMapWithBody_StateByValue(p, s, x, checks) ==
    LET r == CallPredicate(p, s, x, checks)
    IN  IF r.panic THEN [ctl |-> "panic", state |-> s, val |-> None]
        ELSE IF r.result # None THEN [ctl |-> "return", state |-> s, val |-> r.result]
        ELSE [ctl |-> "continue", state |-> s, val |-> None]

\* FilterMapWithOn that returns whatever the function gave, None included,
\* instead of going on to the next item
FilterMapWithOn_ReturnAny(r) ==
    IF r.panic THEN [ctl |-> "panic", state |-> r.state, val |-> None]
    ELSE [ctl |-> "return", state |-> r.state, val |-> r.result]

\* `if let Some(x) = ... { return Some(x); }` on what the call r of the
\* function gave
FilterMapWithOn(r) ==
    IF r.panic THEN [ctl |-> "panic", state |-> r.state, val |-> None]
    ELSE IF r.result # None THEN [ctl |-> "return", state |-> r.state, val |-> r.result]
    ELSE [ctl |-> "continue", state |-> r.state, val |-> None]

\* the body of the loop in FilterMapWith::next, for the item x
FilterMapWithBody(p, s, x, checks) == FilterMapWithOn(CallPredicate(p, s, x, checks))

LoopBody(a, p, s, x, checks) ==
    IF a = "FilterWith" THEN FilterWithBody(p, s, x, checks)
    ELSE FilterMapWithBody(p, s, x, checks)

\* Draw that looks one item ahead: the item polled, the source polled twice
Draw_Ahead(it) == [item |-> IterNext(it).item, iter |-> IterNext(IterNext(it).iter).iter]

\* Draw that peeks: the item polled, the source left where it was
Draw_Peek(it) == [item |-> IterNext(it).item, iter |-> it]

\* `for x in &mut self.iter`: one poll of the source per turn of the loop
Draw(it) == IterNext(it)

\* AfterExhausted that polls the exhausted source again instead of returning
AfterExhausted_Spin == "in_next"

\* where next() goes when the source answers None: it returns None
AfterExhausted == "idle"

\* size_hint_value that hands the source's hint through, lower bound and all
size_hint_value_Through(it) == IterSizeHint(it)

\* size_hint_value that reports one less than the source's upper bound
size_hint_value_OffByOne(it) ==
    LET upper == IterSizeHint(it)[2]
    IN  <<0, IF upper # None /\ upper[1] > 0 THEN Some(upper[1] - 1) ELSE upper>>

\* FilterWith::size_hint and FilterMapWith::size_hint
size_hint_value(it) ==
    LET upper == IterSizeHint(it)[2]
    IN  <<0, upper>>

NoHint == <<>>

NotYet == [kind |-> "init"]

RetNone == [kind |-> "none"]

RetSome(v) == [kind |-> "some", val |-> v]

\* the Option<Item> a return statement of next() hands back
Returned(opt) == IF opt = None THEN RetNone ELSE RetSome(opt[1])

Recording == ndrawn < MaxHist

\* no FilterMapWith runs beside a FilterMapWith
NoTwin == [pc |-> "none"]

\* FilterWithExt::filter_map_with for the adaptor that runs beside
TwinNew(it, s) == [iter |-> it, state |-> s, pc |-> "idle", ret |-> NotYet]

\* the function handed to the adaptor that runs beside, as a call of it
\* answers for the item x when the predicate's call is r:
\* |s, x| if p(s, &x) { Some(x) } else { None }
Lift(r, x) ==
    [panic |-> r.panic, state |-> r.state,
     result |-> IF ~r.panic /\ r.result THEN Some(x) ELSE None]

\* the consumer calls next() on the adaptor that runs beside
TwinCall(t) == IF t.pc = "idle" THEN [t EXCEPT !.pc = "in_next"] ELSE t

\* one turn of the loop of FilterMapWith::next in the adaptor that runs beside
TwinTurn(t, p, checks) ==
    IF t.pc # "in_next" THEN t
    ELSE LET n == Draw(t.iter)
         IN  IF n.item = None
             THEN [iter |-> n.iter, state |-> t.state, pc |-> AfterExhausted,
                   ret |-> IF AfterExhausted = "idle" THEN RetNone ELSE t.ret]
             ELSE LET x == n.item[1]
                      b == FilterMapWithOn(Lift(CallPredicate(p, t.state, x, checks), x))
                  IN  [iter |-> n.iter, state |-> b.state,
                       pc |-> CASE b.ctl = "return" -> "idle"
                                [] b.ctl = "continue" -> "in_next"
                                [] b.ctl = "panic" -> "panicked",
                       ret |-> IF b.ctl = "return" THEN Returned(b.val) ELSE t.ret]

TypeOK ==
    /\ adaptor \in {"none", "FilterWith", "FilterMapWith"}
    /\ pc \in {"new", "idle", "in_next", "panicked"}
    /\ predicate \in FilterPredicates \cup MapPredicates
    /\ overflow_checks \in BOOLEAN
    /\ ndrawn \in 0..MaxHist
    /\ ends \in 0..MaxEnds
    /\ iter.pos \in 0..Len(iter.items)
    /\ twin.pc \in {"none", "idle", "in_next", "panicked"}

Init ==
    /\ predicate \in FilterPredicates \cup MapPredicates
    /\ \E cyc \in BOOLEAN :
         \E script \in SeqsUpTo(IF cyc THEN Polls \ {None} ELSE Polls, MaxLen) :
            /\ cyc => /\ Len(script) >= 2
                      /\ predicate \notin {"sum_lt", "sum_le"}
            /\ iter = [items |-> script, pos |-> 0, cyclic |-> cyc]
    /\ s0 \in InitialStates(predicate)
    /\ state = s0
    /\ overflow_checks \in (IF predicate \in Arithmetic THEN BOOLEAN ELSE {TRUE})
    /\ adaptor = "none"
    /\ pc = "new"
    /\ ret = NotYet
    /\ hint = NoHint
    /\ out = <<>>
    /\ calls = <<>>
    /\ ndrawn = 0
    /\ ends = 0
    /\ twin = NoTwin

\* filter_with that looks ahead: it draws the first item and calls the
\* predicate on it while the adaptor is built
filter_with_Eager ==
    /\ pc = "new"
    /\ predicate \in FilterPredicates
    /\ adaptor' = "FilterWith"
    /\ pc' = "idle"
    /\ LET n == IterNext(iter)
       IN  /\ iter' = n.iter
           /\ state' = IF n.item = None THEN state
                        ELSE CallPredicate(predicate, state, n.item[1], overflow_checks).state
    /\ twin' = TwinNew(iter, state)
    /\ UNCHANGED <<predicate, s0, overflow_checks, ret, hint, out, calls, ndrawn, ends>>

\* FilterWithExt::filter_with
filter_with ==
    /\ pc = "new"
    /\ predicate \in FilterPredicates
    /\ adaptor' = "FilterWith"
    /\ pc' = "idle"
    /\ twin' = TwinNew(iter, state)
    /\ UNCHANGED <<iter, predicate, state, s0, overflow_checks, ret, hint, out,
                   calls, ndrawn, ends>>

\* FilterWithExt::filter_map_with
filter_map_with ==
    /\ pc = "new"
    /\ predicate \in MapPredicates
    /\ adaptor' = "FilterMapWith"
    /\ pc' = "idle"
    /\ twin' = NoTwin
    /\ UNCHANGED <<iter, predicate, state, s0, overflow_checks, ret, hint, out,
                   calls, ndrawn, ends>>

\* Iterator::size_hint on the adaptor
size_hint ==
    /\ pc = "idle"
    /\ hint' = size_hint_value(iter)
    /\ UNCHANGED <<iter, predicate, state, s0, adaptor, overflow_checks, pc, ret,
                   out, calls, ndrawn, ends, twin>>

\* the consumer calls next(): the loop is entered
next_call ==
    /\ pc = "idle"
    /\ pc' = "in_next"
    /\ hint' = NoHint
    /\ twin' = IF adaptor = "FilterWith" THEN TwinCall(twin) ELSE twin
    /\ UNCHANGED <<iter, predicate, state, s0, adaptor, overflow_checks, ret, out,
                   calls, ndrawn, ends>>

\* one turn of the loop: the source answers None, the loop ends, next() returns None
next_exhausted ==
    /\ pc = "in_next"
    /\ LET n == Draw(iter)
       IN  /\ n.item = None
           /\ iter' = n.iter
           /\ pc' = AfterExhausted
           /\ ret' = IF AfterExhausted = "idle" THEN RetNone ELSE ret
           /\ ends' = IF ends < MaxEnds THEN ends + 1 ELSE ends
    /\ twin' = IF adaptor = "FilterWith" THEN TwinTurn(twin, predicate, overflow_checks)
               ELSE twin
    /\ UNCHANGED <<predicate, state, s0, adaptor, overflow_checks, hint, out, calls,
                   ndrawn>>

\* one turn of the loop on an item x: the predicate is called, and next()
\* returns Some, goes round again, or unwinds with the predicate's panic
next_item ==
    /\ pc = "in_next"
    /\ LET n == Draw(iter)
       IN  /\ n.item # None
           /\ LET x == n.item[1]
                  b == LoopBody(adaptor, predicate, state, x, overflow_checks)
              IN  /\ iter' = n.iter
                  /\ state' = b.state
                  /\ ndrawn' = IF Recording THEN ndrawn + 1 ELSE ndrawn
                  /\ calls' = IF Recording THEN Append(calls, <<x, state>>) ELSE calls
                  /\ pc' = CASE b.ctl = "return" -> "idle"
                             [] b.ctl = "continue" -> "in_next"
                             [] b.ctl = "panic" -> "panicked"
                  /\ ret' = IF b.ctl = "return" THEN Returned(b.val) ELSE ret
                  /\ out' = IF b.ctl = "return" /\ b.val # None /\ Recording
                            THEN Append(out, b.val[1]) ELSE out
    /\ twin' = IF adaptor = "FilterWith" THEN TwinTurn(twin, predicate, overflow_checks)
               ELSE twin
    /\ UNCHANGED <<predicate, s0, adaptor, overflow_checks, hint, ends>>

Next ==
    \/ filter_with
    \/ filter_map_with
    \/ size_hint
    \/ next_call
    \/ next_exhausted
    \/ next_item

Spec == Init /\ [][Next]_vars

\* a running next() keeps running: the loop takes its next turn
FairSpec == Spec /\ WF_vars(next_exhausted \/ next_item)

\* a consumer that keeps calling next(): `for x in adaptor`, collect()
ConsumerSpec == FairSpec /\ WF_vars(next_call)

(***************************************************************************)
(* The reference the claims are stated against: the items the source       *)
(* yields, and the predicate replayed over them from the initial state.    *)
(***************************************************************************)
\* the items of a finite script, in order
ScriptItems(script) ==
    LET present == SelectSeq(script, LAMBDA e : e # None)
    IN  [k \in 1..Len(present) |-> present[k][1]]

\* the first n items the source yields (all of them, if it yields fewer)
Stream(it, n) ==
    IF it.cyclic
    THEN [k \in 1..n |-> it.items[((k - 1) % Len(it.items)) + 1][1]]
    ELSE LET all == ScriptItems(it.items)
         IN  SubSeq(all, 1, IF n < Len(all) THEN n ELSE Len(all))

RECURSIVE Replay(_, _, _, _, _)
\* the predicate p called on xs[1], ..., xs[k] in turn, from the state s:
\* the state reached, the values and the indices of the accepted items, and
\* whether a call panicked (the replay stops there)
Replay(p, s, xs, checks, k) ==
    IF k = 0
    THEN [state |-> s, out |-> <<>>, idx |-> <<>>, panic |-> FALSE]
    ELSE LET prev == Replay(p, s, xs, checks, k - 1)
         IN  IF prev.panic THEN prev
             ELSE LET r == CallPredicate(p, prev.state, xs[k], checks)
                      accepted == IF p \in FilterPredicates THEN r.result
                                  ELSE r.result # None
                      value == IF p \in FilterPredicates THEN xs[k] ELSE r.result[1]
                  IN  IF r.panic THEN [prev EXCEPT !.panic = TRUE]
                      ELSE IF accepted
                      THEN [state |-> r.state, out |-> Append(prev.out, value),
                            idx |-> Append(prev.idx, k), panic |-> FALSE]
                      ELSE [prev EXCEPT !.state = r.state]

\* the replay over the items drawn so far
ReplayDrawn == Replay(predicate, s0, Stream(iter, ndrawn), overflow_checks, ndrawn)

Constructed == pc # "new"

\* the last next() returned None, and a finite source has been polled to its end
AtEnd == pc = "idle" /\ ret = RetNone /\ ~iter.cyclic /\ iter.pos = Len(iter.items)

(***************************************************************************)
(* The claims.                                                             *)
(***************************************************************************)
\* C1: the items FilterWith has returned are, in source order, exactly the
\* items drawn so far that a replay of the predicate from the initial state
\* accepts (a subsequence of the source: nothing missing, added, repeated or
\* reordered); and once next() has returned None on a fused finite source,
\* every item of the source has been drawn, so this is the whole answer.
C1_FilterWithYieldsReplayAccepted ==
    (adaptor = "FilterWith" /\ Recording) =>
        LET xs == Stream(iter, ndrawn)
            rp == ReplayDrawn
        IN  /\ Len(xs) = ndrawn
            /\ ~rp.panic =>
                 /\ out = rp.out
                 /\ out = [k \in 1..Len(rp.idx) |-> xs[rp.idx[k]]]
                 /\ \A k \in 1..(Len(rp.idx) - 1) : rp.idx[k] < rp.idx[k + 1]
            /\ (pc = "idle" /\ ret = RetNone /\ ~iter.cyclic /\ Fused(iter)) =>
                 ndrawn = Len(ScriptItems(iter.items))

\* C1's case: a source drawn to its end, with items accepted and rejected
C1_Witness ==
    /\ adaptor = "FilterWith" /\ AtEnd /\ Fused(iter)
    /\ Len(out) = 2 /\ ndrawn = 3 /\ out[1] # out[2]

\* C2: the values FilterMapWith has returned are, in source order, exactly
\* the mapped values of the items drawn so far on which a replay of the
\* function from the initial state gives a present value; the items on which
\* it gives None contribute nothing.
C2_FilterMapWithYieldsReplayMapped ==
    (adaptor = "FilterMapWith" /\ Recording) =>
        LET xs == Stream(iter, ndrawn)
            rp == ReplayDrawn
        IN  /\ Len(xs) = ndrawn
            /\ ~rp.panic =>
                 /\ out = rp.out
                 /\ \A k \in 1..(Len(rp.idx) - 1) : rp.idx[k] < rp.idx[k + 1]
            /\ (pc = "idle" /\ ret = RetNone /\ ~iter.cyclic /\ Fused(iter)) =>
                 ndrawn = Len(ScriptItems(iter.items))

\* C2's case: a source drawn to its end, some items mapped and one dropped
C2_Witness ==
    /\ adaptor = "FilterMapWith" /\ AtEnd /\ Fused(iter)
    /\ predicate = "unique_map_by_filter_with"
    /\ out = <<to_string(4), to_string(0)>> /\ ndrawn = 3

\* C4: the k-th predicate invocation is on the k-th item the source yields
\* and receives the initial state after the k-1 earlier invocations, in
\* source order; every drawn item is examined exactly once, rejected items
\* included, and the state held is the state after all of them.
C4_StateFollowsSourceOrder ==
    (Constructed /\ Recording) =>
        LET xs == Stream(iter, ndrawn)
        IN  /\ Len(calls) = ndrawn
            /\ \A k \in 1..Len(calls) :
                 LET before == Replay(predicate, s0, xs, overflow_checks, k - 1)
                 IN  /\ ~before.panic
                     /\ calls[k] = <<xs[k], before.state>>
            /\ pc # "panicked" => /\ ~ReplayDrawn.panic
                                  /\ state = ReplayDrawn.state

\* C4's case: three items examined, the state changed by each, one rejected
C4_Witness ==
    /\ Len(calls) = 3 /\ Len(out) = 2 /\ pc = "idle"
    /\ calls[1][2] # calls[2][2] /\ calls[2][2] # calls[3][2] /\ calls[3][2] # state

\* the position of the source is just past the items drawn
PositionIsPastDrawn ==
    IF iter.cyclic THEN iter.pos = ndrawn % Len(iter.items)
    ELSE Len(ScriptItems(SubSeq(iter.items, 1, iter.pos))) = ndrawn

\* C5: when next() returns its n-th output, the number of items drawn is the
\* source index of the n-th accepted item and the source stands just past
\* it; nothing is drawn at construction or between the calls of next().
C5_NoSpeculativePull ==
    /\ (pc = "new" \/ (ret = NotYet /\ pc = "idle")) => (ndrawn = 0 /\ iter.pos = 0)
    /\ (pc = "idle" /\ ret.kind = "some" /\ Recording) =>
         LET rp == ReplayDrawn
         IN  /\ Len(out) \in 1..Len(rp.idx)
             /\ ndrawn = rp.idx[Len(out)]
             /\ PositionIsPastDrawn

\* C5's case: the first output is the second item, and a third item is left
C5_Witness ==
    /\ pc = "idle" /\ ret.kind = "some" /\ Len(out) = 1 /\ ndrawn = 2
    /\ ~iter.cyclic /\ iter.pos = 2 /\ Len(ScriptItems(iter.items)) = 3

\* C6: whenever size_hint is called, the lower bound it reports is zero and
\* the upper bound is the upper bound the source reports in that state.
C6_SizeHint ==
    hint # NoHint => /\ hint[1] = 0
                     /\ hint[2] = IterSizeHint(iter)[2]

\* C6's case: a hint taken between two outputs, from a source that reports a
\* lower bound above zero
C6_Witness ==
    /\ hint = <<0, Some(1)>> /\ IterSizeHint(iter)[1] = 1 /\ Len(out) = 1

\* C6's case again: a hint taken after exhaustion, and one from a source
\* that reports no upper bound
C6_WitnessUnbounded == hint = <<0, None>> /\ ends > 0

\* the last completed next() signalled end-of-sequence
EndSignalled == ret = RetNone

\* C3 as stated: once next() has returned None it returns None ever after,
\* whatever the source does when it is polled again.
C3_ExhaustionPermanent_AnySource == [][EndSignalled => EndSignalled']_vars

\* C3, amended: once next() has returned None it returns None ever after,
\* provided the source itself keeps answering None once it has answered None.
C3_ExhaustionPermanent_FusedSource ==
    [][(EndSignalled /\ Fused(iter)) => EndSignalled']_vars

\* C3's case: a fused source with items, polled again after its end: next()
\* has returned None twice
C3_Witness ==
    /\ Fused(iter) /\ ~iter.cyclic /\ pc = "idle" /\ EndSignalled
    /\ ends = 2 /\ Len(out) = 1 /\ ndrawn = 2

\* the predicate never panics on the items this source yields (two rounds of
\* a cyclic source show all that its closures can do)
TotalOnSource ==
    LET n == IF iter.cyclic THEN 2 * Len(iter.items) ELSE Len(ScriptItems(iter.items))
    IN  ~Replay(predicate, s0, Stream(iter, n), overflow_checks, n).panic

\* C7 as stated: every next() returns, for any source, finite or infinite,
\* and any total predicate.
C7_NextReturns_AnySource ==
    (pc = "in_next" /\ TotalOnSource) ~> (pc = "idle")

\* C7, amended: every next() on a finite source returns, for any total
\* predicate, with an item or with end-of-sequence.
C7_NextReturns_FiniteSource ==
    (pc = "in_next" /\ TotalOnSource /\ ~iter.cyclic)
        ~> (pc = "idle" /\ ret.kind \in {"some", "none"})

\* C7's case: a next() that drew three items of a finite source, rejected
\* the last two and returned None
C7_Witness ==
    /\ ~iter.cyclic /\ pc = "idle" /\ ret = RetNone /\ TotalOnSource
    /\ ndrawn = 3 /\ Len(out) = 1 /\ Len(calls) = 3 /\ calls[1][1] = out[1]

(***************************************************************************)
(* What the scenarios expect, computed without the closures: first         *)
(* occurrences, prefix sums in unbounded arithmetic (kept as a pair        *)
(* <<hi, lo>> standing for hi * 65536 + lo), and decimal parsing.          *)
(***************************************************************************)
RECURSIVE FirstOccurrences(_, _)
\* the items among xs[1..k] that no earlier item equals, in order
FirstOccurrences(xs, k) ==
    IF k = 0 THEN <<>>
    ELSE LET before == FirstOccurrences(xs, k - 1)
         IN  IF \E j \in 1..(k - 1) : xs[j] = xs[k] THEN before
             ELSE Append(before, xs[k])

WideOf(x) == <<x \div 65536, x % 65536>>

WideAdd(w, v) ==
    LET lo == w[2] + v[2]
    IN  <<w[1] + v[1] + (lo \div 65536), lo % 65536>>

WideLess(w, v) == w[1] < v[1] \/ (w[1] = v[1] /\ w[2] < v[2])

WideFitsI32(w) == w[1] >= -32768 /\ w[1] <= 32767

RECURSIVE PrefixSum(_, _)
\* xs[1] + ... + xs[k], exactly
PrefixSum(xs, k) ==
    IF k = 0 THEN WideOf(0) ELSE WideAdd(PrefixSum(xs, k - 1), WideOf(xs[k]))

RECURSIVE AboveRunningSum(_, _, _)
\* the items among xs[1..k] greater than the sum of the items before them
\* (or equal to it, when orEqual), in order
AboveRunningSum(xs, k, orEqual) ==
    IF k = 0 THEN <<>>
    ELSE LET before == AboveRunningSum(xs, k - 1, orEqual)
             sum == PrefixSum(xs, k - 1)
         IN  IF WideLess(sum, WideOf(xs[k])) \/ (orEqual /\ sum = WideOf(xs[k]))
             THEN Append(before, xs[k]) ELSE before

\* every running sum of xs is an i32
SumsFit(xs) == \A k \in 1..Len(xs) : WideFitsI32(PrefixSum(xs, k))

\* the square of every item of xs is an i32
SquaresFit(xs) == \A k \in 1..Len(xs) : ~MulOverflows(xs[k], xs[k])

DigitValue(c) ==
    CASE c = "0" -> 0 [] c = "1" -> 1 [] c = "2" -> 2 [] c = "3" -> 3
      [] c = "4" -> 4 [] c = "5" -> 5 [] c = "6" -> 6 [] c = "7" -> 7
      [] c = "8" -> 8 [] c = "9" -> 9

RECURSIVE NegValue(_, _, _)
\* minus the number the digits cs[from..k] spell
NegValue(cs, from, k) ==
    IF k < from THEN 0 ELSE (NegValue(cs, from, k - 1) * 10) - DigitValue(cs[k])

\* the i32 a decimal string spells
ParseI32(cs) ==
    IF cs[1] = "-" THEN NegValue(cs, 2, Len(cs)) ELSE 0 - NegValue(cs, 1, Len(cs))

\* v = x * x, decided without multiplying
IsSquareOf(v, x) == IF x = 0 THEN v = 0 ELSE (v % x = 0 /\ v \div x = x)

AllItems == ScriptItems(iter.items)

\* C8: filter_with over a finite source, with an empty set as state and the
\* closure "reject if in the set, else insert and accept", yields each
\* distinct value once, in order of first occurrence, and leaves the set of
\* all source values as the state.
C8_Deduplication ==
    (AtEnd /\ predicate = "unique_by_filter_with" /\ s0 = {}) =>
        /\ out = FirstOccurrences(AllItems, Len(AllItems))
        /\ state = Elems(AllItems)
        /\ \A j, k \in 1..Len(out) : j # k => out[j] # out[k]

\* C8's case: a source with a repeated value, drawn to its end
C8_Witness ==
    /\ AtEnd /\ predicate = "unique_by_filter_with" /\ s0 = {}
    /\ AllItems = <<1, 2, 1>> /\ out = <<1, 2>>

SumScenario == predicate \in {"sum_lt", "sum_le"} /\ s0 = 0 /\ ~iter.cyclic

\* C9 as stated: filter_with over any finite source of integers, with sum = 0
\* and the closure "decide sum < item (sum <= item), then add the item to
\* sum", runs to the end and yields exactly the items greater than (or equal
\* to) the sum of all the items before them.
C9_RunningSum_AnyIntegers ==
    SumScenario =>
        /\ pc # "panicked"
        /\ AtEnd => out = AboveRunningSum(AllItems, Len(AllItems), predicate = "sum_le")

\* C9, amended: the same, for a source whose running sums all fit in an i32.
C9_RunningSum_SumsFit ==
    (SumScenario /\ SumsFit(AllItems)) =>
        /\ pc # "panicked"
        /\ AtEnd => out = AboveRunningSum(AllItems, Len(AllItems), predicate = "sum_le")

\* C9's case: an item equal to the running sum, which sum < item rejects
C9_Witness ==
    /\ AtEnd /\ predicate = "sum_lt" /\ s0 = 0 /\ overflow_checks
    /\ AllItems = <<1, 1, 2>> /\ out = <<1>> /\ state = 4

\* C9's case again: the same source under sum <= item
C9_WitnessOrEqual ==
    /\ AtEnd /\ predicate = "sum_le" /\ s0 = 0 /\ overflow_checks
    /\ AllItems = <<1, 1, 2>> /\ out = <<1, 1, 2>> /\ state = 4

SeenScenario ==
    /\ predicate \in MapPredicates
    /\ s0 = (IF predicate = "unique_map_by_filter_with" THEN {} ELSE <<>>)
    /\ ~iter.cyclic

\* the number a returned value stands for: itself, or the number its
\* decimal string spells
NumberOf(v) == IF predicate = "unique_map_by_filter_with" THEN ParseI32(v) ELSE v

\* C10 as stated: filter_map_with over any finite source of integers, with
\* nothing seen at first and the function "absent if seen, else record and
\* return the square (as a number or as a string)", runs to the end and
\* yields the square of each distinct value once, in order of first
\* occurrence.
C10_SeenSquares_AnyIntegers ==
    SeenScenario =>
        /\ predicate = "unique_map_by_filter_with" => pc # "panicked"
        /\ AtEnd =>
             LET first == FirstOccurrences(AllItems, Len(AllItems))
             IN  /\ Len(out) = Len(first)
                 /\ \A k \in 1..Len(out) : IsSquareOf(NumberOf(out[k]), first[k])

\* C10, amended: the same, for a source whose items have squares that fit in
\* an i32.
C10_SeenSquares_SquaresFit ==
    (SeenScenario /\ SquaresFit(AllItems)) =>
        /\ predicate = "unique_map_by_filter_with" => pc # "panicked"
        /\ AtEnd =>
             LET first == FirstOccurrences(AllItems, Len(AllItems))
             IN  /\ Len(out) = Len(first)
                 /\ \A k \in 1..Len(out) : IsSquareOf(NumberOf(out[k]), first[k])
                 /\ \A k \in 1..Len(out) : NumberOf(out[k]) = first[k] * first[k]

\* C10's case: squares returned as strings, a repeated value dropped
C10_Witness ==
    /\ AtEnd /\ predicate = "unique_map_by_filter_with" /\ s0 = {}
    /\ AllItems = <<2, 1, 2>> /\ out = <<<<"4">>, <<"1">>>>

\* C10's case again: squares returned as numbers from a source without
\* repetition
C10_WitnessNumbers ==
    /\ AtEnd /\ predicate = "filter_map_with_predicate"
    /\ AllItems = <<0, 1, 2>> /\ out = <<0, 1, 4>>

\* the predicate fails on the item the running next() is about to draw
PredicateFailsNow ==
    /\ pc = "in_next"
    /\ IterNext(iter).item # None
    /\ CallPredicate(predicate, state, IterNext(iter).item[1], overflow_checks).panic

\* C11: when the predicate (or mapping function) fails on an item, the
\* running next() ends with that failure at once: it returns neither an item
\* nor end-of-sequence, the source stands just past the failing item and no
\* further item is drawn, the item is not passed over as rejected, and the
\* iteration is over: nothing happens after the failure.
C11_FailurePropagates ==
    [][/\ PredicateFailsNow =>
            /\ pc' = "panicked"
            /\ ret' = ret /\ out' = out /\ ends' = ends
            /\ iter' = IterNext(iter).iter
       /\ pc = "panicked" => UNCHANGED vars]_vars

\* C11's case: a failure on the second item, after one output, with a
\* third item left in the source
C11_Witness ==
    /\ pc = "panicked" /\ ndrawn = 2 /\ Len(out) = 1 /\ ret.kind = "some"
    /\ ~iter.cyclic /\ iter.pos = 2 /\ Len(AllItems) = 3

\* the upper bound the source reports is present and is a true bound on the
\* items the source can still yield
SourceBoundIsTrue(it) ==
    /\ ~it.cyclic
    /\ IterSizeHint(it)[2] # None
    /\ IterSizeHint(it)[2][1] >= Len(ScriptItems(SubSeq(it.items, it.pos + 1, Len(it.items))))

\* the upper bound the adaptor reports
ReportedUpper(it) == size_hint_value(it)[2][1]

\* C12: while the source's upper bound is a true bound, no step lets the
\* outputs so far plus the reported upper bound grow, and the reported bound
\* is never negative: so the outputs produced after any state never exceed
\* the bound reported in that state.  The outputs so far never exceed the
\* items drawn so far.
C12_UpperBoundSound ==
    [][/\ (Constructed /\ SourceBoundIsTrue(iter)) =>
            /\ size_hint_value(iter)[2] # None
            /\ size_hint_value(iter')[2] # None
            /\ ReportedUpper(iter') >= 0
            /\ Len(out') + ReportedUpper(iter') <= Len(out) + ReportedUpper(iter)
       /\ Len(out') <= ndrawn']_vars

\* C12's case: a bound of 1 reported after two items were drawn and one of
\* them returned
C12_Witness ==
    /\ hint = <<0, Some(1)>> /\ SourceBoundIsTrue(iter)
    /\ Len(out) = 1 /\ ndrawn = 2 /\ Len(AllItems) = 3

\* the running next() polls the source and the source answers None
SourceAnswersNone == pc = "in_next" /\ IterNext(iter).item = None

\* the running next() polls the source and the source answers an item
SourceAnswersItem == pc = "in_next" /\ IterNext(iter).item # None

\* C13: the state changes only in a turn of next() on an item, to the state
\* the predicate leaves on that item; construction keeps the given initial
\* state, the source and the predicate, draws nothing and calls nothing; a
\* size_hint query leaves the state and the source alone; a next() that
\* finds the source exhausted calls the predicate zero times, leaves the
\* state alone and returns None.
C13_StateChangesOnlyInPredicate ==
    [][/\ state' # state =>
            /\ SourceAnswersItem
            /\ state' = CallPredicate(predicate, state, IterNext(iter).item[1],
                                      overflow_checks).state
       /\ pc = "new" =>
            /\ pc' = "idle"
            /\ state' = s0 /\ s0' = s0 /\ iter' = iter /\ predicate' = predicate
            /\ calls' = calls /\ ndrawn' = ndrawn /\ out' = out /\ ret' = NotYet
       /\ (pc = "idle" /\ pc' = "idle") =>
            /\ hint' = size_hint_value(iter)
            /\ state' = state /\ iter' = iter /\ calls' = calls /\ ndrawn' = ndrawn
       /\ SourceAnswersNone =>
            /\ state' = state /\ calls' = calls /\ ndrawn' = ndrawn /\ out' = out
            /\ ret' = RetNone /\ pc' = "idle"]_vars

\* C13's case: the state was changed by the predicate, next() was called
\* again after the end, and a size_hint query followed
C13_Witness ==
    /\ pc = "idle" /\ ret = RetNone /\ ends = 2 /\ hint # NoHint
    /\ state # s0 /\ Len(calls) = 2

\* a finite source that stays exhausted once it has answered None
FiniteFused == ~iter.cyclic /\ Fused(iter)

\* the items the source can still yield
Remaining(it) == Len(ScriptItems(SubSeq(it.items, it.pos + 1, Len(it.items))))

\* next() has returned None after the predicate was called once on every
\* item of the source
EndAfterAllItems ==
    pc = "idle" /\ ret = RetNone /\ Len(calls) = Len(AllItems)

\* C14: on a finite source that stays exhausted, every item drawn is one item
\* less remaining and one call of the predicate, so a next() that starts with
\* n items remaining draws at most n items and calls the predicate at most n
\* times; whenever next() has returned None the predicate has been called
\* exactly once per item of the source; and a consumer that keeps calling
\* next() gets there, unless a panic of the predicate ends the run first.
C14_TerminationBound ==
    /\ [](FiniteFused /\ Constructed =>
            /\ ndrawn + Remaining(iter) = Len(AllItems)
            /\ Len(calls) = ndrawn
            /\ (pc = "idle" /\ ret = RetNone) => Len(calls) = Len(AllItems))
    /\ (FiniteFused /\ Constructed) ~> (EndAfterAllItems \/ pc = "panicked")

\* C14's case: the end reached on a source of three items after three calls
\* of the predicate, two of them accepting
C14_Witness ==
    /\ FiniteFused /\ EndAfterAllItems /\ Len(AllItems) = 3
    /\ Len(out) = 2 /\ ends = 1 /\ Remaining(iter) = 0

\* C15: a FilterWith and the FilterMapWith built on the same source and
\* initial state, with the function that answers Some(x) where the predicate
\* answers true and None where it answers false, agree after every call of
\* next() -- and after every turn of its loop -- on the value returned, on
\* the state and on the position of the source.
C15_FilterWithIsFilterMapWith ==
    adaptor = "FilterWith" =>
        /\ twin.pc = pc
        /\ twin.ret = ret
        /\ twin.state = state
        /\ twin.iter = iter

\* C15's case: both adaptors have returned the same third item after
\* accepting one and rejecting one, and both states have moved
C15_Witness ==
    /\ adaptor = "FilterWith" /\ pc = "idle" /\ twin.pc = "idle"
    /\ ret.kind = "some" /\ twin.ret = ret
    /\ Len(out) = 2 /\ ndrawn = 3 /\ twin.state # s0 /\ twin.iter.pos = 3

====
